---- MODULE Spec2Model ----
(***************************************************************************)
(* Model of cfpurge (erfianugrah/cache-purge-go).                          *)
(*                                                                         *)
(*   Spec         the cobra "purge" command        src/cmd/purge.go        *)
(*   SpecResolve  host -> zone matching of the     src/unnamed/part_004    *)
(*                flag-based handlePurge                                   *)
(*   SpecKV       "kv delete" / "kv purge"         src/cmd/kv/delete.go,   *)
(*                                                 src/cmd/kv/purge.go     *)
(*                                                                         *)
(* Strings are TLA+ strings; HasSuffix, Contains and SplitCommaList are    *)
(* computed character by character as the Go library functions do.         *)
(***************************************************************************)
EXTENDS Integers, Sequences, FiniteSets, TLC

VARIABLES
    \* ---- purge command: inputs (flags, arguments, account) ----
    authOK,           \* api.ValidateAuth() succeeds
    zoneArgs,         \* positional arguments
    purgeHosts,       \* --hosts  (comma separated string)
    purgeURLs,        \* --urls
    purgeTags,        \* --tags
    purgeAll,         \* --all
    purgeEverything,  \* --everything
    zones,            \* the account's zones, as api.ListZones returns them
    \* ---- purge command: locals of RunE ----
    pc,               \* position in RunE
    targetZones,
    zi,               \* index of the zone the range loop is at (1-based)
    purgeHostsList,
    purgeURLsList,
    tagsList,
    ti,               \* the tag loop's i
    err,              \* the shared err of the selective branch: "nil" or "err"
    successCount,
    failureCount,
    ret,              \* what RunE returned: "none" while running, "nil", "err"
    \* ---- purge command: observations ----
    calls,            \* the API calls issued, in order
    zoneResult,       \* per loop iteration: "success", "failure" or "skipped"
    warnings,         \* util.Warning lines
    summary,          \* what util.PrettyPrintResults printed, <<>> before
    \* ---- handlePurge with automatic matching (src/unnamed/part_004) ----
    zonesByDomain,    \* the zones of the map zone.Name -> zone
    hostList,         \* splitCommaList(*hosts)
    urlList,          \* splitCommaList(*urls)
    rpc,              \* "hosts", "urls" or "done"
    ri,               \* index of the host or URL being matched (1-based)
    toVisit,          \* zone names the range over the map has not yet produced
    matched,
    matchedZoneName,
    purgeConfigs,     \* zone name -> [Hosts, URLs]; absent names are not in DOMAIN
    assigned,         \* per processed host or URL: what it was matched to
    rWarnings,        \* hosts and URLs reported as matching no zone
    \* ---- kv delete / kv purge: flags and configuration ----
    kvCmd,            \* "delete" or "purge"
    kvAuthOK,         \* api.ValidateAuth() succeeds
    kvAccountOK,      \* api.ValidateAccountID() succeeds
    namespace,        \* --namespace (comma separated string)
    allNamespaces,    \* --all-namespaces
    deleteByTag,      \* --tag
    key,              \* --key (kv delete only)
    dryRun,           \* --dry-run
    \* ---- kv delete / kv purge: locals of RunE ----
    kpc,              \* position of the main goroutine in RunE
    namespaceIDs,
    ni,               \* index of the namespace the range loop is at (1-based)
    keysToDelete,
    cacheTags,
    bi,               \* the batch loop's i (0-based offset, as in the source)
    tasks,            \* the goroutines started for the current namespace
    wg,               \* counter of the sync.WaitGroup
    deleteMutex,      \* 0 when free, else the index of the task holding it
    delSuccessCount,  \* successCount of the namespace being processed
    delFailureCount,  \* failureCount of the namespace being processed
    totalSuccessCount,
    totalFailureCount,
    allCacheTags,
    kvZones,          \* zones returned by client.ListZones in the purge stage
    kvTagsList,       \* tagsList of the purge stage
    ci,               \* the tag batch loop's i (0-based offset)
    kzi,              \* index of the zone the inner range loop is at (1-based)
    purgeSuccessCount,
    purgeFailureCount,
    kret,             \* what RunE returned: "none" while running, "nil", "err"
    \* ---- kv delete / kv purge: observations ----
    deleteCalls,      \* <<namespace, key>> -> number of DeleteWorkersKVEntry calls
    counted,          \* <<namespace, key>> -> number of counter updates made for it
    failedCalls,      \* delete calls of the current namespace that returned an error
    listing,          \* per ListWorkersKVKeys call: [ns, ok]
    reported,         \* per dry-run listing printed: [ns, keys]
    nsSummaries,      \* per "Summary for namespace" line: [ns, success, failure]
    kvPurgeCalls,     \* the PurgeCache calls of the purge stage, in order
    zonesListed,      \* client.ListZones was called
    kvSummary         \* the final summary line, <<>> before

purgeInputs == <<authOK, zoneArgs, purgeHosts, purgeURLs, purgeTags, purgeAll,
                 purgeEverything, zones>>
purgeLocals == <<pc, targetZones, zi, purgeHostsList, purgeURLsList, tagsList, ti,
                 err, successCount, failureCount, ret>>
purgeObs == <<calls, zoneResult, warnings, summary>>
purgeVars == <<purgeInputs, purgeLocals, purgeObs>>

resolveVars == <<zonesByDomain, hostList, urlList, rpc, ri, toVisit, matched,
                 matchedZoneName, purgeConfigs, assigned, rWarnings>>

kvInputs == <<kvCmd, kvAuthOK, kvAccountOK, namespace, allNamespaces, deleteByTag,
              key, dryRun>>
kvLoop == <<namespaceIDs, ni, keysToDelete, cacheTags, bi>>
kvTaskVars == <<tasks, wg, deleteMutex, delSuccessCount, delFailureCount>>
kvTotals == <<totalSuccessCount, totalFailureCount, allCacheTags>>
kvStage == <<kvZones, kvTagsList, ci, kzi, purgeSuccessCount, purgeFailureCount>>
kvObs == <<deleteCalls, counted, failedCalls, listing, reported, nsSummaries,
           kvPurgeCalls, zonesListed, kvSummary>>
kvVars == <<kvInputs, kpc, kvLoop, kvTaskVars, kvTotals, kvStage, kret, kvObs>>

vars == <<purgeVars, resolveVars, kvVars>>

notPurgeVars == <<resolveVars, kvVars>>
notResolveVars == <<purgeVars, kvVars>>
notKVVars == <<purgeVars, resolveVars>>

-----------------------------------------------------------------------------
(* Strings *)

\* strings.HasSuffix(s, suffix)
HasSuffix(s, suffix) ==
    /\ Len(s) >= Len(suffix)
    /\ SubSeq(s, Len(s) - Len(suffix) + 1, Len(s)) = suffix

\* strings.Contains(s, substr)
Contains(s, substr) ==
    \E i \in 0..(Len(s) - Len(substr)) : SubSeq(s, i + 1, i + Len(substr)) = substr

\* index of the first comma of s, 0 when s has none
FirstComma(s) ==
    IF \E i \in 1..Len(s) : SubSeq(s, i, i) = ","
    THEN CHOOSE i \in 1..Len(s) :
            /\ SubSeq(s, i, i) = ","
            /\ \A j \in 1..(i - 1) : SubSeq(s, j, j) # ","
    ELSE 0

\* strings.Split(s, ",")
RECURSIVE Split(_)
Split(s) ==
    LET c == FirstComma(s)
    IN  IF c = 0 THEN <<s>>
        ELSE <<SubSeq(s, 1, c - 1)>> \o Split(SubSeq(s, c + 1, Len(s)))

\* util.SplitCommaList: nil for the empty string, strings.Split otherwise
SplitCommaList(s) == IF s = "" THEN <<>> ELSE Split(s)

\* "t1,t2,...,tn"
RECURSIVE JoinTags(_)
JoinTags(n) ==
    IF n = 1 THEN "t1" ELSE JoinTags(n - 1) \o "," \o "t" \o ToString(n)

-----------------------------------------------------------------------------
(* Bounds and input pools of the purge command *)

MaxArgs == 2        \* at most this many positional zone arguments
MaxTags == 31       \* length of the long --tags list (more than one chunk)
TagChunk == 30      \* tags per PurgeCache request

zEx  == [ID |-> "id-ex",  Name |-> "example.com"]
zApi == [ID |-> "id-api", Name |-> "api.example.com"]
zOth == [ID |-> "id-oth", Name |-> "other.com"]

AccountZoneLists ==
    { <<>>, <<zEx>>, <<zEx, zApi>>, <<zEx, zOth>>, <<zEx, zOth, zApi>> }

ArgPool == {"example.com", "id-oth", "nope.org"}
ArgLists ==
    { args \in UNION { [1..n -> ArgPool] : n \in 0..MaxArgs } :
        \A i, j \in DOMAIN args : args[i] = args[j] => i = j }

HostsPool == {"", "api.example.com,cdn.other.com", "api.example.com,www.nomatch.net"}
URLsPool  == {"", "https://example.com/page1", "https://cdn.io/other.com-page"}
TagsPool  == {"", "t1,t2", JoinTags(MaxTags)}

-----------------------------------------------------------------------------
(* The purge command: src/cmd/purge.go, purgeCmd.RunE *)

\* zoneMap[arg] is set: some zone has arg as its name or as its id
zoneMapHas(zs, arg) == \E i \in 1..Len(zs) : zs[i].Name = arg \/ zs[i].ID = arg

\* zoneMap[arg]: the loop writes zoneMap[zone.Name] and zoneMap[zone.ID] zone
\* after zone, so the last zone carrying arg is the one kept
zoneMapGet(zs, arg) ==
    LET hit == { i \in 1..Len(zs) : zs[i].Name = arg \/ zs[i].ID = arg }
    IN  zs[CHOOSE i \in hit : \A j \in hit : j <= i]

\* a host test that assigns every host to every zone
HostMatchesEveryZone(host, zone) == TRUE

\* the host test of the purge command: strings.HasSuffix(host, zone.Name)
HostMatchesZone(host, zone) == HasSuffix(host, zone.Name)

\* the URL test of the purge command: strings.Contains(url, zone.Name)
URLMatchesZone(url, zone) == Contains(url, zone.Name)

\* a resolution that gives up after the first argument
ZonesOfArgsFirstOnly(zs, args) ==
    IF args = <<>> THEN <<>>
    ELSE IF zoneMapHas(zs, Head(args)) THEN <<zoneMapGet(zs, Head(args))>> ELSE <<>>

\* targetZones of the "explicit arguments" branch; unknown arguments are skipped
RECURSIVE ZonesOfArgs(_, _)
ZonesOfArgs(zs, args) ==
    IF args = <<>> THEN <<>>
    ELSE (IF zoneMapHas(zs, Head(args)) THEN <<zoneMapGet(zs, Head(args))>> ELSE <<>>)
            \o ZonesOfArgs(zs, Tail(args))

\* the warnings of that branch
RECURSIVE WarningsOfArgs(_, _)
WarningsOfArgs(zs, args) ==
    IF args = <<>> THEN <<>>
    ELSE (IF zoneMapHas(zs, Head(args)) THEN <<>>
          ELSE <<[kind |-> "zone not found", what |-> Head(args)]>>)
            \o WarningsOfArgs(zs, Tail(args))

\* shouldInclude of the hosts/URLs branch
shouldInclude(zone, hostsList, urlsList) ==
    \/ \E i \in 1..Len(hostsList) : HostMatchesZone(hostsList[i], zone)
    \/ \E i \in 1..Len(urlsList) : URLMatchesZone(urlsList[i], zone)

ZonesOfHostsURLs(zs, hostsList, urlsList) ==
    LET Inc(z) == shouldInclude(z, hostsList, urlsList)
    IN  SelectSeq(zs, Inc)

\* an err that no call ever sets
ErrAfterCallIgnored(prev, ok) == "nil"

\* err after a call:  _, err = client.PurgeCache(...)  assigns the shared err
ErrAfterCall(prev, ok) == IF ok THEN "nil" ELSE "err"

\* a chunk that carries the whole rest of the list
ChunkEndRest(i, n) == n

\* end of the chunk that starts at offset i (0-based) of a list of n tags
ChunkEnd(i, n) == IF i + TagChunk > n THEN n ELSE i + TagChunk

Call(zone, kind, items, ok) ==
    [zone |-> zone.ID, at |-> zi, kind |-> kind, items |-> items, ok |-> ok]

InitPurgeRun ==
    /\ authOK \in BOOLEAN
    /\ zoneArgs \in ArgLists
    /\ purgeHosts \in HostsPool
    /\ purgeURLs \in URLsPool
    /\ purgeTags \in TagsPool
    /\ purgeAll \in BOOLEAN
    /\ purgeEverything \in BOOLEAN
    /\ zones \in AccountZoneLists
    /\ pc = "validate"
    /\ targetZones = <<>>
    /\ zi = 0
    /\ purgeHostsList = <<>>
    /\ purgeURLsList = <<>>
    /\ tagsList = <<>>
    /\ ti = 0
    /\ err = "nil"
    /\ successCount = 0
    /\ failureCount = 0
    /\ ret = "none"
    /\ calls = <<>>
    /\ zoneResult = <<>>
    /\ warnings = <<>>
    /\ summary = <<>>

Return(r) ==
    /\ ret' = r
    /\ pc' = "done"

\* lines 38-50: ValidateAuth, GetClient, the "nothing specified" check
Validate ==
    /\ pc = "validate"
    /\ IF ~authOK
       THEN Return("err")
       ELSE IF /\ Len(zoneArgs) = 0 /\ ~purgeAll
               /\ purgeHosts = "" /\ purgeURLs = "" /\ purgeTags = ""
            THEN Return("err")
            ELSE pc' = "listZones" /\ ret' = ret
    /\ UNCHANGED <<purgeInputs, targetZones, zi, purgeHostsList, purgeURLsList,
                   tagsList, ti, err, successCount, failureCount, purgeObs>>
    /\ UNCHANGED notPurgeVars

\* lines 52-55: api.ListZones fails
ListZonesFails ==
    /\ pc = "listZones"
    /\ Return("err")
    /\ UNCHANGED <<purgeInputs, targetZones, zi, purgeHostsList, purgeURLsList,
                   tagsList, ti, err, successCount, failureCount, purgeObs>>
    /\ UNCHANGED notPurgeVars

\* lines 52-105: api.ListZones succeeds; zoneMap and targetZones are built
ResolveTargets ==
    /\ pc = "listZones"
    /\ LET hostsList == SplitCommaList(purgeHosts)
           urlsList == SplitCommaList(purgeURLs)
           byHost == ZonesOfHostsURLs(zones, hostsList, urlsList)
       IN  IF purgeAll
           THEN /\ targetZones' = zones
                /\ warnings' = warnings
                /\ pc' = "zone" /\ ret' = ret
           ELSE IF Len(zoneArgs) > 0
           THEN /\ targetZones' = ZonesOfArgs(zones, zoneArgs)
                /\ warnings' = warnings \o WarningsOfArgs(zones, zoneArgs)
                /\ pc' = "zone" /\ ret' = ret
           ELSE IF purgeHosts # "" \/ purgeURLs # ""
           THEN /\ targetZones' = byHost
                /\ warnings' = warnings
                /\ IF Len(byHost) = 0
                   THEN Return("err")
                   ELSE pc' = "zone" /\ ret' = ret
           ELSE /\ targetZones' = <<>>
                /\ warnings' = warnings
                /\ pc' = "zone" /\ ret' = ret
    /\ zi' = 1
    /\ UNCHANGED <<purgeInputs, purgeHostsList, purgeURLsList, tagsList, ti, err,
                   successCount, failureCount, calls, zoneResult, summary>>
    /\ UNCHANGED notPurgeVars

InLoop == pc = "zone" /\ zi <= Len(targetZones)

\* a loop that is left at the first zone that failed
ZoneAfterAbortOnError(e, i, n) == IF e # "nil" THEN n + 1 ELSE i + 1

\* the index of the next passage of  for _, zone := range targetZones : after a
\* failed zone the loop body ends with continue, as it does after a successful one
ZoneAfter(e, i, n) == i + 1

\* lines 109-121: the everything branch of one zone
PurgeEverythingCall ==
    /\ InLoop
    /\ purgeEverything
    /\ \E ok \in BOOLEAN :
        /\ calls' = Append(calls, Call(targetZones[zi], "everything", <<>>, ok))
        /\ IF ok
           THEN /\ successCount' = successCount + 1
                /\ failureCount' = failureCount
                /\ zoneResult' = Append(zoneResult, "success")
           ELSE /\ failureCount' = failureCount + 1
                /\ successCount' = successCount
                /\ zoneResult' = Append(zoneResult, "failure")
        /\ zi' = ZoneAfter(IF ok THEN "nil" ELSE "err", zi, Len(targetZones))
    /\ UNCHANGED <<purgeInputs, pc, targetZones, purgeHostsList, purgeURLsList,
                   tagsList, ti, err, ret, warnings, summary>>
    /\ UNCHANGED notPurgeVars

\* a payload test that lets every zone through
HasPayloadAlways(hl, ul, tags) == TRUE

\* line 142: the zone has something to purge
HasPayload(hl, ul, tags) == Len(hl) > 0 \/ Len(ul) > 0 \/ tags # ""

\* an everything branch without its continue statements
ReachesSelectiveAlways(everything) == TRUE

\* lines 109-121: both exits of the everything branch are continue statements,
\* so the selective branch is reached only without the everything flag
ReachesSelective(everything) == ~everything

\* lines 123-143: the hosts and URLs of this zone; an empty payload is skipped
ZoneBegin ==
    /\ InLoop
    /\ ReachesSelective(purgeEverything)
    /\ LET zone == targetZones[zi]
           HostOK(h) == HostMatchesZone(h, zone)
           URLOK(u) == URLMatchesZone(u, zone)
           hl == IF purgeHosts # "" THEN SelectSeq(SplitCommaList(purgeHosts), HostOK)
                 ELSE <<>>
           ul == IF purgeURLs # "" THEN SelectSeq(SplitCommaList(purgeURLs), URLOK)
                 ELSE <<>>
       IN  /\ purgeHostsList' = hl
           /\ purgeURLsList' = ul
           /\ IF HasPayload(hl, ul, purgeTags)
              THEN /\ pc' = "hosts"
                   /\ err' = "nil"
                   /\ zi' = zi
                   /\ zoneResult' = zoneResult
              ELSE /\ pc' = pc
                   /\ err' = err
                   /\ zi' = zi + 1
                   /\ zoneResult' = Append(zoneResult, "skipped")
    /\ UNCHANGED <<purgeInputs, targetZones, tagsList, ti, successCount, failureCount,
                   ret, calls, warnings, summary>>
    /\ UNCHANGED notPurgeVars

\* lines 145-150
HostsStep ==
    /\ pc = "hosts"
    /\ IF Len(purgeHostsList) > 0
       THEN \E ok \in BOOLEAN :
              /\ calls' = Append(calls, Call(targetZones[zi], "hosts", purgeHostsList, ok))
              /\ err' = ErrAfterCall(err, ok)
       ELSE UNCHANGED <<calls, err>>
    /\ pc' = "urls"
    /\ UNCHANGED <<purgeInputs, targetZones, zi, purgeHostsList, purgeURLsList, tagsList,
                   ti, successCount, failureCount, ret, zoneResult, warnings, summary>>
    /\ UNCHANGED notPurgeVars

\* lines 152-157
URLsStep ==
    /\ pc = "urls"
    /\ IF Len(purgeURLsList) > 0
       THEN \E ok \in BOOLEAN :
              /\ calls' = Append(calls, Call(targetZones[zi], "files", purgeURLsList, ok))
              /\ err' = ErrAfterCall(err, ok)
       ELSE UNCHANGED <<calls, err>>
    /\ pc' = "tags"
    /\ UNCHANGED <<purgeInputs, targetZones, zi, purgeHostsList, purgeURLsList, tagsList,
                   ti, successCount, failureCount, ret, zoneResult, warnings, summary>>
    /\ UNCHANGED notPurgeVars

\* tags that go only to a zone some host or URL was matched to
SendsTagsWhenMatched(tags, hl, ul) == tags # "" /\ (Len(hl) > 0 \/ Len(ul) > 0)

\* line 159: the tags are sent whatever the zone's hosts and URLs are
SendsTags(tags, hl, ul) == tags # ""

\* lines 159-162: tagsList := util.SplitCommaList(purgeTags); i := 0
TagsStep ==
    /\ pc = "tags"
    /\ IF SendsTags(purgeTags, purgeHostsList, purgeURLsList)
       THEN /\ tagsList' = SplitCommaList(purgeTags)
            /\ ti' = 0
            /\ pc' = "chunk"
       ELSE /\ UNCHANGED <<tagsList, ti>>
            /\ pc' = "count"
    /\ UNCHANGED <<purgeInputs, targetZones, zi, purgeHostsList, purgeURLsList, err,
                   successCount, failureCount, ret, purgeObs>>
    /\ UNCHANGED notPurgeVars

\* a tag loop that goes on after a failed chunk
AfterChunkNoBreak(ok) == pc' = pc /\ ti' = ti + TagChunk

\* after a chunk's call: break on error, else i += 30
AfterChunk(ok) ==
    IF ~ok THEN pc' = "count" /\ ti' = ti
    ELSE pc' = pc /\ ti' = ti + TagChunk

\* lines 162-177: one pass of the tag loop
TagChunkStep ==
    /\ pc = "chunk"
    /\ IF ti < Len(tagsList)
       THEN \E ok \in BOOLEAN :
              /\ calls' = Append(calls,
                    Call(targetZones[zi], "tags",
                         SubSeq(tagsList, ti + 1, ChunkEnd(ti, Len(tagsList))), ok))
              /\ err' = ErrAfterCall(err, ok)
              /\ AfterChunk(ok)
       ELSE /\ pc' = "count"
            /\ UNCHANGED <<calls, err, ti>>
    /\ UNCHANGED <<purgeInputs, targetZones, zi, purgeHostsList, purgeURLsList, tagsList,
                   successCount, failureCount, ret, zoneResult, warnings, summary>>
    /\ UNCHANGED notPurgeVars

\* the counters without the continue of the error branch
CountsAfterZoneFallThrough(e, sc, fc) ==
    IF e # "nil" THEN <<sc + 1, fc + 1>> ELSE <<sc + 1, fc>>

\* <<successCount, failureCount>> after a zone whose calls left err = e:
\* failureCount++ and continue, or successCount++
CountsAfterZone(e, sc, fc) ==
    IF e # "nil" THEN <<sc, fc + 1>> ELSE <<sc + 1, fc>>

\* lines 180-198: the zone is counted once, by the final value of err
ZoneCount ==
    /\ pc = "count"
    /\ successCount' = CountsAfterZone(err, successCount, failureCount)[1]
    /\ failureCount' = CountsAfterZone(err, successCount, failureCount)[2]
    /\ zoneResult' = Append(zoneResult, IF err # "nil" THEN "failure" ELSE "success")
    /\ zi' = ZoneAfter(err, zi, Len(targetZones))
    /\ pc' = "zone"
    /\ UNCHANGED <<purgeInputs, targetZones, purgeHostsList, purgeURLsList, tagsList, ti,
                   err, ret, calls, warnings, summary>>
    /\ UNCHANGED notPurgeVars

\* lines 201-202: util.PrettyPrintResults(successCount, failureCount); return nil
Summary ==
    /\ pc = "zone"
    /\ zi > Len(targetZones)
    /\ summary' = <<[success |-> successCount, failure |-> failureCount]>>
    /\ Return("nil")
    /\ UNCHANGED <<purgeInputs, targetZones, zi, purgeHostsList, purgeURLsList,
                   tagsList, ti, err, successCount, failureCount, calls, zoneResult,
                   warnings>>
    /\ UNCHANGED notPurgeVars

NextPurge ==
    \/ Validate
    \/ ListZonesFails
    \/ ResolveTargets
    \/ PurgeEverythingCall
    \/ ZoneBegin
    \/ HostsStep
    \/ URLsStep
    \/ TagsStep
    \/ TagChunkStep
    \/ ZoneCount
    \/ Summary

\* the variables of the other commands, at rest
ResolveIdle ==
    /\ zonesByDomain = {}
    /\ hostList = <<>>
    /\ urlList = <<>>
    /\ rpc = "idle"
    /\ ri = 0
    /\ toVisit = {}
    /\ matched = FALSE
    /\ matchedZoneName = ""
    /\ purgeConfigs = <<>>
    /\ assigned = <<>>
    /\ rWarnings = <<>>

\* the kv commands are not running
KVIdle ==
    /\ kvCmd = "idle"
    /\ kvAuthOK = FALSE
    /\ kvAccountOK = FALSE
    /\ namespace = ""
    /\ allNamespaces = FALSE
    /\ deleteByTag = ""
    /\ key = ""
    /\ dryRun = FALSE
    /\ kpc = "idle"
    /\ namespaceIDs = << >>
    /\ ni = 0
    /\ keysToDelete = << >>
    /\ cacheTags = << >>
    /\ bi = 0
    /\ tasks = << >>
    /\ wg = 0
    /\ deleteMutex = 0
    /\ delSuccessCount = 0
    /\ delFailureCount = 0
    /\ totalSuccessCount = 0
    /\ totalFailureCount = 0
    /\ allCacheTags = << >>
    /\ kvZones = << >>
    /\ kvTagsList = << >>
    /\ ci = 0
    /\ kzi = 0
    /\ purgeSuccessCount = 0
    /\ purgeFailureCount = 0
    /\ kret = "none"
    /\ deleteCalls = << >>
    /\ counted = << >>
    /\ failedCalls = 0
    /\ listing = << >>
    /\ reported = << >>
    /\ nsSummaries = << >>
    /\ kvPurgeCalls = << >>
    /\ zonesListed = FALSE
    /\ kvSummary = << >>

InitPurge == InitPurgeRun /\ ResolveIdle /\ KVIdle

Spec == InitPurge /\ [][NextPurge]_vars

PurgeIdle ==
    /\ authOK = FALSE
    /\ zoneArgs = <<>>
    /\ purgeHosts = ""
    /\ purgeURLs = ""
    /\ purgeTags = ""
    /\ purgeAll = FALSE
    /\ purgeEverything = FALSE
    /\ zones = <<>>
    /\ pc = "idle"
    /\ targetZones = <<>>
    /\ zi = 0
    /\ purgeHostsList = <<>>
    /\ purgeURLsList = <<>>
    /\ tagsList = <<>>
    /\ ti = 0
    /\ err = "nil"
    /\ successCount = 0
    /\ failureCount = 0
    /\ ret = "none"
    /\ calls = <<>>
    /\ zoneResult = <<>>
    /\ warnings = <<>>
    /\ summary = <<>>


-----------------------------------------------------------------------------
(* Automatic host/URL -> zone matching: src/unnamed/part_004, handlePurge,     *)
(* lines 179-228.  The range over the map zonesByDomain yields the zone names  *)
(* in an order the Go runtime chooses, so the model visits them in any order.  *)

ResolveHostsPool ==
    {"", "api.example.com", "api.example.com,cdn.other.com", "www.nomatch.net",
     "notexample.com,example.com"}
ResolveURLsPool == {"", "https://api.example.com/p", "https://cdn.io/other.com-page"}
ZoneSets == { { zs[i] : i \in 1..Len(zs) } : zs \in AccountZoneLists }

ZoneNames == { z.Name : z \in zonesByDomain }
ZoneNamed(zn) == CHOOSE z \in zonesByDomain : z.Name = zn

\* the first match wins, whatever its length
BetterMatchFirstWins(zoneName, current) == current = ""

\* matchedZoneName == "" || len(zoneName) > len(matchedZoneName)
BetterMatch(zoneName, current) == current = "" \/ Len(zoneName) > Len(current)

\* purgeConfigs[name], the zero value when the map has no such key
ConfigOf(name) ==
    IF name \in DOMAIN purgeConfigs THEN purgeConfigs[name]
    ELSE [Zone |-> [ID |-> "", Name |-> ""], Hosts |-> <<>>, URLs |-> <<>>]

SetConfig(name, config) ==
    [n \in DOMAIN purgeConfigs \cup {name} |->
        IF n = name THEN config ELSE purgeConfigs[n]]

CurrentList == IF rpc = "hosts" THEN hostList ELSE urlList

InitResolveRun ==
    /\ zonesByDomain \in ZoneSets
    /\ hostList \in { SplitCommaList(h) : h \in ResolveHostsPool }
    /\ urlList \in { SplitCommaList(u) : u \in ResolveURLsPool }
    /\ rpc = "hosts"
    /\ ri = 1
    /\ toVisit = ZoneNames
    /\ matched = FALSE
    /\ matchedZoneName = ""
    /\ purgeConfigs = <<>>
    /\ assigned = <<>>
    /\ rWarnings = <<>>

\* lines 187-193 and 212-218: one passage of the range over zonesByDomain
RangeZone ==
    /\ rpc \in {"hosts", "urls"}
    /\ ri <= Len(CurrentList)
    /\ \E zoneName \in toVisit :
        LET item == CurrentList[ri]
            test == IF rpc = "hosts" THEN HasSuffix(item, zoneName)
                    ELSE Contains(item, zoneName)
        IN  /\ IF test /\ BetterMatch(zoneName, matchedZoneName)
               THEN matchedZoneName' = zoneName /\ matched' = TRUE
               ELSE UNCHANGED <<matchedZoneName, matched>>
            /\ toVisit' = toVisit \ {zoneName}
    /\ UNCHANGED <<zonesByDomain, hostList, urlList, rpc, ri, purgeConfigs, assigned,
                   rWarnings>>
    /\ UNCHANGED notResolveVars

\* lines 194-201 and 219-226: the host or URL is appended to the matched zone's
\* config, or reported as matching no zone
ItemDone ==
    /\ rpc \in {"hosts", "urls"}
    /\ ri <= Len(CurrentList)
    /\ toVisit = {}
    /\ LET item == CurrentList[ri]
           config == ConfigOf(matchedZoneName)
       IN  IF matched
           THEN /\ purgeConfigs' =
                     SetConfig(matchedZoneName,
                        IF rpc = "hosts"
                        THEN [config EXCEPT !.Zone = ZoneNamed(matchedZoneName),
                                            !.Hosts = Append(@, item)]
                        ELSE [config EXCEPT !.Zone = ZoneNamed(matchedZoneName),
                                            !.URLs = Append(@, item)])
                /\ rWarnings' = rWarnings
           ELSE /\ purgeConfigs' = purgeConfigs
                /\ rWarnings' = Append(rWarnings, item)
    /\ assigned' = Append(assigned,
            [kind |-> rpc, item |-> CurrentList[ri], matched |-> matched,
             zone |-> matchedZoneName])
    /\ ri' = ri + 1
    /\ toVisit' = ZoneNames
    /\ matched' = FALSE
    /\ matchedZoneName' = ""
    /\ UNCHANGED <<zonesByDomain, hostList, urlList, rpc>>
    /\ UNCHANGED notResolveVars

\* the end of the hosts loop (line 202) and of the URLs loop (line 227)
ListDone ==
    /\ rpc \in {"hosts", "urls"}
    /\ ri > Len(CurrentList)
    /\ rpc' = IF rpc = "hosts" THEN "urls" ELSE "done"
    /\ ri' = 1
    /\ UNCHANGED <<zonesByDomain, hostList, urlList, toVisit, matched, matchedZoneName,
                   purgeConfigs, assigned, rWarnings>>
    /\ UNCHANGED notResolveVars

NextResolve ==
    \/ RangeZone
    \/ ItemDone
    \/ ListDone

-----------------------------------------------------------------------------
(* Bounds, the KV store and the input pools of the kv commands *)

MaxKeys == 31
batchSize == 30

\* A key as ListWorkersKVKeys returns it with Metadata: true.  Metadata is
\* nil, a JSON object (map[string]interface{}) or another JSON value; the
\* object's "cache-tag" field is absent, a string or another JSON value.
StorageKey(name, metaKind, tagKind, tag) ==
    [Name |-> name, Metadata |-> [kind |-> metaKind, tagKind |-> tagKind, tag |-> tag]]

KnownNamespaces == {"nsA", "nsB", "nsC"}

Store(nsID) ==
    CASE nsID = "nsA" ->
           << StorageKey("a1", "nil", "absent", ""),
              StorageKey("a2", "map", "absent", ""),
              StorageKey("a3", "map", "number", ""),
              StorageKey("a4", "map", "string", "product-123-variant"),
              StorageKey("a5", "map", "string", "other"),
              StorageKey("a6", "map", "string", "product-123"),
              StorageKey("a7", "other", "absent", "") >>
      [] nsID = "nsB" ->
           [i \in 1..MaxKeys |->
               StorageKey("b" \o ToString(i), "map", "string", "product-123")]
      [] nsID = "nsC" ->
           << StorageKey("c1", "map", "string", "product-123") >>
      [] OTHER -> << >>

\* ListWorkersKVKeys may fail for any namespace and fails for an unknown one
ListKeysOutcomes(nsID) == IF nsID \in KnownNamespaces THEN BOOLEAN ELSE {FALSE}

\* what ListWorkersKVNamespaces may return for the account
AccountNamespaceLists == { << >>, <<"nsA", "nsC">> }

\* what client.ListZones may return in the purge stage of kv purge
KVZoneLists == { << >>, <<zEx, zOth>> }

NamespacePool == {"", "nsC", "nsB,nsA", "nsX,nsC"}
TagFilterPool == {"", "product-123", "variant"}
KeyPool == {"", "k1"}

\* the <<namespace, key name>> pairs of the store
StoredKeys ==
    UNION { {<<n, Store(n)[i].Name>> : i \in DOMAIN Store(n)} : n \in KnownNamespaces }

-----------------------------------------------------------------------------
(* kv delete and kv purge: src/cmd/kv/delete.go and src/cmd/kv/purge.go,   *)
(* RunE of newDeleteCmd and of newPurgeCmd.  The two handlers share their  *)
(* text up to the end of the namespace loop; line numbers are given for    *)
(* delete.go first and purge.go second.                                    *)

\* a test that asks for a cache-tag equal to the filter
TagMatchesExact(k, tag) ==
    /\ k.Metadata.kind = "map"
    /\ k.Metadata.tagKind = "string"
    /\ k.Metadata.tag = tag

\* delete.go 142-147, purge.go 106-111: the nested tests on one key
TagMatches(k, tag) ==
    /\ k.Metadata.kind = "map"
    /\ k.Metadata.tagKind = "string"
    /\ Contains(k.Metadata.tag, tag)

\* delete.go 139-153, purge.go 102-118: the keys appended to keysToDelete
CollectKeys(keys, tag) ==
    LET Hit(k) == TagMatches(k, tag)
        sel == SelectSeq(keys, Hit)
    IN  [i \in 1..Len(sel) |-> sel[i].Name]

\* purge.go 103-118: the raw tag values appended to cacheTags
CollectTags(keys, tag) ==
    LET Hit(k) == TagMatches(k, tag)
        sel == SelectSeq(keys, Hit)
    IN  [i \in 1..Len(sel) |-> sel[i].Metadata.tag]

\* a batch that runs to the end of the key list
BatchEndRest(i, n) == n

\* delete.go 178-184, purge.go 143-149: end of the batch that starts at offset i
BatchEnd(i, n) == IF i + batchSize > n THEN n ELSE i + batchSize

\* a batch loop that starts a task at every offset of the key list
NextBatchEveryKey(i) == i + 1

\* delete.go 177, purge.go 142: the step of the batch loop, i += batchSize
NextBatch(i) == i + batchSize

\* util.StringSliceToSet: the keys of the map built from the slice
StringSliceToSet(slice) == {slice[i] : i \in DOMAIN slice}

\* purge.go 196-199: the orders in which ranging over the map can yield its keys
MapOrders(S) ==
    {p \in [1..Cardinality(S) -> S] : \A i, j \in 1..Cardinality(S) : p[i] = p[j] => i = j}

\* a tagsList that is allCacheTags as collected, duplicates included
TagListsWithDuplicates(slice) == {slice}

\* purge.go 193-199: uniqueTags and the tagsList built by ranging over it
UniqueTagLists(slice) == MapOrders(StringSliceToSet(slice))

\* a run that deletes whatever --dry-run says
SkipDeletionNever(dr) == FALSE

\* delete.go 162, purge.go 127: the dry-run test that skips the deletion
SkipDeletion(dr) == dr

\* counters that take every delete call for a success
CountResultAlwaysSuccess(e, sc, fc) == <<sc + 1, fc>>

\* delete.go 198-204, purge.go 163-169: the counters after one delete call
CountResult(e, sc, fc) ==
    IF e # "nil" THEN <<sc, fc + 1>> ELSE <<sc + 1, fc>>

\* a wait that returns whatever the counter is
WaitReleasedAtOnce(n) == TRUE

\* delete.go 211, purge.go 176: wg.Wait() returns when the counter is zero
WaitReleased(n) == n = 0

InitKVRun ==
    /\ kvCmd \in {"delete", "purge"}
    /\ kvAuthOK \in BOOLEAN
    /\ kvAccountOK \in BOOLEAN
    /\ namespace \in NamespacePool
    /\ allNamespaces \in BOOLEAN
    /\ deleteByTag \in TagFilterPool
    /\ key \in (IF kvCmd = "delete" THEN KeyPool ELSE {""})
    /\ dryRun \in BOOLEAN
    /\ kpc = "validate"
    /\ namespaceIDs = << >>
    /\ ni = 0
    /\ keysToDelete = << >>
    /\ cacheTags = << >>
    /\ bi = 0
    /\ tasks = << >>
    /\ wg = 0
    /\ deleteMutex = 0
    /\ delSuccessCount = 0
    /\ delFailureCount = 0
    /\ totalSuccessCount = 0
    /\ totalFailureCount = 0
    /\ allCacheTags = << >>
    /\ kvZones = << >>
    /\ kvTagsList = << >>
    /\ ci = 0
    /\ kzi = 0
    /\ purgeSuccessCount = 0
    /\ purgeFailureCount = 0
    /\ kret = "none"
    /\ deleteCalls = [k \in StoredKeys |-> 0]
    /\ counted = [k \in StoredKeys |-> 0]
    /\ failedCalls = 0
    /\ listing = << >>
    /\ reported = << >>
    /\ nsSummaries = << >>
    /\ kvPurgeCalls = << >>
    /\ zonesListed = FALSE
    /\ kvSummary = << >>

KVReturn(r) ==
    /\ kret' = r
    /\ kpc' = "done"

\* delete.go 44-63, purge.go 37-56: the checks made before any API call
KVValidate ==
    /\ kpc = "validate"
    /\ IF ~kvAuthOK \/ ~kvAccountOK
       THEN KVReturn("err")
       ELSE IF namespace = "" /\ ~allNamespaces
       THEN KVReturn("err")
       ELSE IF deleteByTag = "" /\ (kvCmd = "purge" \/ key = "")
       THEN KVReturn("err")
       ELSE /\ kpc' = IF kvCmd = "delete" /\ key # "" THEN "key" ELSE "namespaces"
            /\ kret' = kret
    /\ UNCHANGED <<kvInputs, kvLoop, kvTaskVars, kvTotals, kvStage, kvObs>>
    /\ UNCHANGED notKVVars

\* delete.go 66-94: a single key is deleted directly
KVDeleteKey ==
    /\ kpc = "key"
    /\ LET namespaces == SplitCommaList(namespace)
       IN  IF allNamespaces \/ Len(namespaces) > 1
           THEN KVReturn("err") /\ UNCHANGED <<reported, deleteCalls>>
           ELSE IF dryRun
           THEN /\ reported' = Append(reported, [ns |-> namespaces[1], keys |-> <<key>>])
                /\ KVReturn("nil")
                /\ UNCHANGED deleteCalls
           ELSE \E ok \in BOOLEAN :
                /\ deleteCalls' =
                     LET k == <<namespaces[1], key>>
                     IN  IF k \in DOMAIN deleteCalls
                         THEN [deleteCalls EXCEPT ![k] = @ + 1]
                         ELSE deleteCalls @@ (k :> 1)
                /\ KVReturn(IF ok THEN "nil" ELSE "err")
                /\ UNCHANGED reported
    /\ UNCHANGED <<kvInputs, kvLoop, kvTaskVars, kvTotals, kvStage>>
    /\ UNCHANGED <<counted, failedCalls, listing, nsSummaries, kvPurgeCalls, zonesListed,
                   kvSummary>>
    /\ UNCHANGED notKVVars

\* delete.go 97-120, purge.go 59-83: the namespaces to process
KVNamespaces ==
    /\ kpc = "namespaces"
    /\ IF allNamespaces
       THEN \E ok \in BOOLEAN, found \in AccountNamespaceLists :
              IF ~ok \/ Len(found) = 0
              THEN KVReturn("err") /\ UNCHANGED <<namespaceIDs, ni>>
              ELSE /\ namespaceIDs' = found
                   /\ ni' = 1
                   /\ kpc' = "loop"
                   /\ kret' = kret
       ELSE /\ namespaceIDs' = SplitCommaList(namespace)
            /\ ni' = 1
            /\ kpc' = "loop"
            /\ kret' = kret
    /\ UNCHANGED <<kvInputs, keysToDelete, cacheTags, bi, kvTaskVars, kvTotals, kvStage,
                   kvObs>>
    /\ UNCHANGED notKVVars

\* a namespace loop that leaves out the last namespace
MoreNamespacesButLast(i, ids) == i < Len(ids)

\* delete.go 123, purge.go 86: the range loop over namespaceIDs has an element left
MoreNamespaces(i, ids) == i <= Len(ids)

\* a listing error that is reported and not counted
AfterListErrorUncounted(fc) == fc

\* delete.go 131-135, purge.go 94-98: totalFailureCount++ after a listing error
AfterListError(fc) == fc + 1

\* delete.go 123-168 and 171-174, purge.go 86-133 and 136-139: one namespace is
\* listed, its keys are filtered, and the deletion is skipped or set up
KVListKeys ==
    /\ kpc = "loop"
    /\ MoreNamespaces(ni, namespaceIDs)
    /\ \E ok \in ListKeysOutcomes(namespaceIDs[ni]) :
         LET nsID == namespaceIDs[ni]
             keys == Store(nsID)
             toDelete == IF ok THEN CollectKeys(keys, deleteByTag) ELSE << >>
             tags == IF ok /\ kvCmd = "purge"
                     THEN CollectTags(keys, deleteByTag) ELSE << >>
             report == Len(toDelete) > 0 /\ SkipDeletion(dryRun)
             start == Len(toDelete) > 0 /\ ~SkipDeletion(dryRun)
         IN  /\ listing' = Append(listing, [ns |-> nsID, ok |-> ok])
             /\ totalFailureCount' = IF ok THEN totalFailureCount
                                     ELSE AfterListError(totalFailureCount)
             /\ keysToDelete' = toDelete
             /\ cacheTags' = tags
             /\ reported' = IF report
                            THEN Append(reported, [ns |-> nsID, keys |-> toDelete])
                            ELSE reported
             /\ IF start
                THEN /\ tasks' = << >>
                     /\ wg' = 0
                     /\ deleteMutex' = 0
                     /\ delSuccessCount' = 0
                     /\ delFailureCount' = 0
                     /\ bi' = 0
                     /\ failedCalls' = 0
                     /\ ni' = ni
                     /\ kpc' = "dispatch"
                ELSE /\ ni' = ni + 1
                     /\ UNCHANGED <<kvTaskVars, bi, failedCalls, kpc>>
    /\ UNCHANGED <<kvInputs, namespaceIDs, totalSuccessCount, allCacheTags, kvStage, kret>>
    /\ UNCHANGED <<deleteCalls, counted, nsSummaries, kvPurgeCalls, zonesListed, kvSummary>>
    /\ UNCHANGED notKVVars

\* delete.go 178-208, purge.go 143-173: wg.Add(1) and the go statement of one
\* batch, or the end of the batch loop
KVDispatch ==
    /\ kpc = "dispatch"
    /\ IF bi < Len(keysToDelete)
       THEN /\ tasks' = Append(tasks,
                   [keys |-> SubSeq(keysToDelete, bi + 1, BatchEnd(bi, Len(keysToDelete))),
                    nsID |-> namespaceIDs[ni],
                    pos |-> 1, st |-> "ready", e |-> "nil"])
            /\ wg' = wg + 1
            /\ bi' = NextBatch(bi)
            /\ kpc' = kpc
       ELSE /\ kpc' = "wait"
            /\ UNCHANGED <<tasks, wg, bi>>
    /\ UNCHANGED <<kvInputs, namespaceIDs, ni, keysToDelete, cacheTags, deleteMutex,
                   delSuccessCount, delFailureCount, kvTotals, kvStage, kret, kvObs>>
    /\ UNCHANGED notKVVars

TaskFrame ==
    /\ UNCHANGED <<kvInputs, kpc, kvLoop, kvTotals, kvStage, kret>>
    /\ UNCHANGED <<listing, reported, nsSummaries, kvPurgeCalls, zonesListed, kvSummary>>
    /\ UNCHANGED notKVVars

\* delete.go 190-195, purge.go 155-160: a task sends the delete call of its next key
TaskCall ==
    \E t \in DOMAIN tasks :
      /\ tasks[t].st = "ready"
      /\ tasks[t].pos <= Len(tasks[t].keys)
      /\ tasks' = [tasks EXCEPT ![t].st = "inflight"]
      /\ deleteCalls' = [deleteCalls EXCEPT
                           ![<<tasks[t].nsID, tasks[t].keys[tasks[t].pos]>>] = @ + 1]
      /\ UNCHANGED <<wg, deleteMutex, delSuccessCount, delFailureCount, counted,
                     failedCalls>>
      /\ TaskFrame

\* delete.go 191, purge.go 156: DeleteWorkersKVEntry returns nil or an error
TaskReturn ==
    \E t \in DOMAIN tasks, ok \in BOOLEAN :
      /\ tasks[t].st = "inflight"
      /\ tasks' = [tasks EXCEPT ![t].st = "returned",
                                ![t].e = IF ok THEN "nil" ELSE "err"]
      /\ failedCalls' = IF ok THEN failedCalls ELSE failedCalls + 1
      /\ UNCHANGED <<wg, deleteMutex, delSuccessCount, delFailureCount, deleteCalls,
                     counted>>
      /\ TaskFrame

\* a lock that is handed to whoever asks for it
LockFreeAlways(mu) == TRUE

\* delete.go 197, purge.go 162: Lock() returns only when no task holds the mutex
LockFree(mu) == mu = 0

\* delete.go 197, purge.go 162: deleteMutex.Lock()
TaskLock ==
    \E t \in DOMAIN tasks :
      /\ tasks[t].st = "returned"
      /\ LockFree(deleteMutex)
      /\ deleteMutex' = t
      /\ tasks' = [tasks EXCEPT ![t].st = "locked"]
      /\ UNCHANGED <<wg, delSuccessCount, delFailureCount, deleteCalls, counted,
                     failedCalls>>
      /\ TaskFrame

\* delete.go 198-204, purge.go 163-169: the counter update made under the lock
TaskCount ==
    \E t \in DOMAIN tasks :
      /\ tasks[t].st = "locked"
      /\ LET c == CountResult(tasks[t].e, delSuccessCount, delFailureCount)
         IN  /\ delSuccessCount' = c[1]
             /\ delFailureCount' = c[2]
      /\ counted' = [counted EXCEPT
                       ![<<tasks[t].nsID, tasks[t].keys[tasks[t].pos]>>] = @ + 1]
      /\ tasks' = [tasks EXCEPT ![t].st = "counted"]
      /\ UNCHANGED <<wg, deleteMutex, deleteCalls, failedCalls>>
      /\ TaskFrame

\* delete.go 205, purge.go 170: deleteMutex.Unlock() and the next loop iteration
TaskUnlock ==
    \E t \in DOMAIN tasks :
      /\ tasks[t].st = "counted"
      /\ deleteMutex' = 0
      /\ tasks' = [tasks EXCEPT ![t].st = "ready", ![t].pos = @ + 1, ![t].e = "nil"]
      /\ UNCHANGED <<wg, delSuccessCount, delFailureCount, deleteCalls, counted,
                     failedCalls>>
      /\ TaskFrame

\* a task that ends without telling the wait group
WgDoneMissing(n) == n

\* delete.go 188, purge.go 153: defer wg.Done() takes one off the counter
WgDone(n) == n - 1

\* delete.go 188, purge.go 153: the range loop is over, the deferred wg.Done() runs
TaskDone ==
    \E t \in DOMAIN tasks :
      /\ tasks[t].st = "ready"
      /\ tasks[t].pos > Len(tasks[t].keys)
      /\ tasks' = [tasks EXCEPT ![t].st = "done"]
      /\ wg' = WgDone(wg)
      /\ UNCHANGED <<deleteMutex, delSuccessCount, delFailureCount, deleteCalls, counted,
                     failedCalls>>
      /\ TaskFrame

\* delete.go 211, purge.go 176: wg.Wait()
KVWait ==
    /\ kpc = "wait"
    /\ WaitReleased(wg)
    /\ kpc' = "summary"
    /\ UNCHANGED <<kvInputs, kvLoop, kvTaskVars, kvTotals, kvStage, kret, kvObs>>
    /\ UNCHANGED notKVVars

\* tags that are kept only when some key of the namespace was deleted
TagsForwardedIfDeleted(tags, sc) == IF sc > 0 THEN tags ELSE << >>

\* purge.go 181: allCacheTags = append(allCacheTags, cacheTags...), whatever the
\* namespace's successCount is
TagsForwarded(tags, sc) == tags

\* delete.go 213-215, purge.go 178-181: the namespace's counters are printed and
\* added to the totals; kv purge keeps the namespace's tags
KVNamespaceSummary ==
    /\ kpc = "summary"
    /\ nsSummaries' = Append(nsSummaries,
            [ns |-> namespaceIDs[ni], success |-> delSuccessCount,
             failure |-> delFailureCount])
    /\ totalSuccessCount' = totalSuccessCount + delSuccessCount
    /\ totalFailureCount' = totalFailureCount + delFailureCount
    /\ allCacheTags' = IF kvCmd = "purge"
                       THEN allCacheTags \o TagsForwarded(cacheTags, delSuccessCount)
                       ELSE allCacheTags
    /\ ni' = ni + 1
    /\ kpc' = "loop"
    /\ UNCHANGED <<kvInputs, namespaceIDs, keysToDelete, cacheTags, bi, kvTaskVars,
                   kvStage, kret>>
    /\ UNCHANGED <<deleteCalls, counted, failedCalls, listing, reported, kvPurgeCalls,
                   zonesListed, kvSummary>>
    /\ UNCHANGED notKVVars

\* purge.go 207-208: the number of tags per PurgeCache request
kvTagBatch == 30

\* delete.go 218-219, purge.go 234-235: the overall summary, RunE returns nil
KVFinish ==
    /\ kvSummary' = <<[success |-> totalSuccessCount, failure |-> totalFailureCount]>>
    /\ KVReturn("nil")

\* delete.go 218-219: the end of kv delete
KVDeleteFinish ==
    /\ kpc = "loop"
    /\ ~MoreNamespaces(ni, namespaceIDs)
    /\ kvCmd = "delete"
    /\ KVFinish
    /\ UNCHANGED <<kvInputs, kvLoop, kvTaskVars, kvTotals, kvStage>>
    /\ UNCHANGED <<deleteCalls, counted, failedCalls, listing, reported, nsSummaries,
                   kvPurgeCalls, zonesListed>>
    /\ UNCHANGED notKVVars

\* purge.go 185-205: the purge stage is entered or skipped
KVPurgeStage ==
    /\ kpc = "loop"
    /\ ~MoreNamespaces(ni, namespaceIDs)
    /\ kvCmd = "purge"
    /\ IF Len(allCacheTags) > 0 /\ ~dryRun
       THEN /\ zonesListed' = TRUE
            /\ \E ok \in BOOLEAN, zs \in KVZoneLists :
                 IF ~ok
                 THEN /\ KVFinish
                      /\ UNCHANGED kvStage
                 ELSE \E order \in UniqueTagLists(allCacheTags) :
                      /\ kvZones' = zs
                      /\ kvTagsList' = order
                      /\ ci' = 0
                      /\ kzi' = 1
                      /\ purgeSuccessCount' = 0
                      /\ purgeFailureCount' = 0
                      /\ kpc' = "purgeCalls"
                      /\ UNCHANGED <<kret, kvSummary>>
       ELSE /\ KVFinish
            /\ UNCHANGED <<kvStage, zonesListed>>
    /\ UNCHANGED <<kvInputs, kvLoop, kvTaskVars, kvTotals>>
    /\ UNCHANGED <<deleteCalls, counted, failedCalls, listing, reported, nsSummaries,
                   kvPurgeCalls>>
    /\ UNCHANGED notKVVars

\* purge.go 207-228: one PurgeCache call, or the step to the next batch of tags
KVPurgeCall ==
    /\ kpc = "purgeCalls"
    /\ ci < Len(kvTagsList)
    /\ IF kzi <= Len(kvZones)
       THEN \E ok \in BOOLEAN :
            LET end == IF ci + kvTagBatch > Len(kvTagsList) THEN Len(kvTagsList)
                       ELSE ci + kvTagBatch
            IN  /\ kvPurgeCalls' = Append(kvPurgeCalls,
                       [zone |-> kvZones[kzi].ID,
                        tags |-> SubSeq(kvTagsList, ci + 1, end), ok |-> ok])
                /\ purgeSuccessCount' = IF ok THEN purgeSuccessCount + 1
                                        ELSE purgeSuccessCount
                /\ purgeFailureCount' = IF ok THEN purgeFailureCount
                                        ELSE purgeFailureCount + 1
                /\ kzi' = kzi + 1
                /\ ci' = ci
       ELSE /\ ci' = ci + kvTagBatch
            /\ kzi' = 1
            /\ UNCHANGED <<kvPurgeCalls, purgeSuccessCount, purgeFailureCount>>
    /\ UNCHANGED <<kvInputs, kpc, kvLoop, kvTaskVars, kvTotals, kvZones, kvTagsList, kret>>
    /\ UNCHANGED <<deleteCalls, counted, failedCalls, listing, reported, nsSummaries,
                   zonesListed, kvSummary>>
    /\ UNCHANGED notKVVars

\* purge.go 230-235: the end of kv purge after the purge stage
KVPurgeFinish ==
    /\ kpc = "purgeCalls"
    /\ ci >= Len(kvTagsList)
    /\ KVFinish
    /\ UNCHANGED <<kvInputs, kvLoop, kvTaskVars, kvTotals, kvStage>>
    /\ UNCHANGED <<deleteCalls, counted, failedCalls, listing, reported, nsSummaries,
                   kvPurgeCalls, zonesListed>>
    /\ UNCHANGED notKVVars

NextKV ==
    \/ KVValidate
    \/ KVDeleteKey
    \/ KVNamespaces
    \/ KVListKeys
    \/ KVDispatch
    \/ TaskCall
    \/ TaskReturn
    \/ TaskLock
    \/ TaskCount
    \/ TaskUnlock
    \/ TaskDone
    \/ KVWait
    \/ KVNamespaceSummary
    \/ KVDeleteFinish
    \/ KVPurgeStage
    \/ KVPurgeCall
    \/ KVPurgeFinish

InitKV == InitKVRun /\ PurgeIdle /\ ResolveIdle

SpecKV == InitKV /\ [][NextKV]_vars

\* kv delete and kv purge under a scheduler that lets the program go on: as long
\* as the main goroutine or a batch task can take a step, or a delete call in
\* flight can return, one of them eventually does
\* The namespace with more than 30 keys is given to kv delete; the batch loop of
\* kv purge, which is the same text, runs on the namespaces of one batch.
InitKVFair == InitKV /\ (kvCmd = "purge" => namespace # "nsB,nsA")

SpecKVFair == InitKVFair /\ [][NextKV]_vars /\ WF_vars(NextKV)

\* The exit status of the process: 1 when RunE returned an error, 0 when it
\* returned nil (cobra hands RunE's error to main through Execute)
ExitCode == IF ret = "err" THEN 1 ELSE 0

-----------------------------------------------------------------------------
(* Claims about the purge command *)

CallIdx == 1..Len(calls)
TagCallsAt(k) == { i \in CallIdx : calls[i].at = k /\ calls[i].kind = "tags" }
NumChunks(n) == (n + TagChunk - 1) \div TagChunk
Items(c) == { c.items[j] : j \in 1..Len(c.items) }

\* C2: no host string and no URL string is sent to two different zones in a run.
C2_ItemInOneZone ==
    \A i, j \in CallIdx :
        ( /\ calls[i].kind \in {"hosts", "files"}
          /\ calls[j].kind = calls[i].kind
          /\ calls[i].zone # calls[j].zone )
        => Items(calls[i]) \cap Items(calls[j]) = {}

\* C5 as stated: at the summary successCount + failureCount is the number of
\* purge API calls attempted.
C5_CountsEqualCalls ==
    summary # <<>> => summary[1].success + summary[1].failure = Len(calls)

\* C5 amended: at the summary successCount + failureCount is the number of target
\* zones for which at least one purge call was attempted (each passage of the zone
\* loop that issued a call is counted once), which is at most the number of calls.
C5_CountsEqualZonesAttempted ==
    summary # <<>> =>
        /\ summary[1].success + summary[1].failure
              = Cardinality({ calls[i].at : i \in CallIdx })
        /\ summary[1].success + summary[1].failure <= Len(calls)
        /\ summary[1].success = successCount
        /\ summary[1].failure = failureCount

\* C5 witness: a summary of a run that issued more calls than it counted, with a
\* success and a failure among the zones.
C5_Witness ==
    /\ summary # <<>>
    /\ Len(calls) > successCount + failureCount
    /\ successCount > 0
    /\ failureCount > 0

\* C6: the process exits 0 if failureCount = 0 at the end of the run, and exits 1
\* if at least one purge operation failed.
C6_ExitCodeFollowsFailures ==
    summary # <<>> =>
        /\ (failureCount = 0 /\ (\A i \in CallIdx : calls[i].ok)) => ExitCode = 0
        /\ (failureCount > 0 \/ (\E i \in CallIdx : ~calls[i].ok)) => ExitCode = 1

\* C7: a run that resolves no target zone (every explicit zone argument unknown, or
\* no zone matching the hosts/URLs given) ends with an error (exit 1) and issues no
\* purge call.
C7_NoTargetIsError ==
    ( /\ pc = "done"
      /\ ~purgeAll
      /\ Len(zoneArgs) > 0 \/ purgeHosts # "" \/ purgeURLs # ""
      /\ targetZones = <<>> )
    => (ExitCode = 1 /\ calls = <<>>)

\* C9: if any PurgeCache call issued for a zone fails, the zone is counted as a
\* failure and not as a success, whatever the later calls for that zone return.
C9_FailedCallCounted ==
    \A k \in 1..Len(zoneResult) :
        (\E i \in CallIdx : calls[i].at = k /\ ~calls[i].ok)
            => zoneResult[k] = "failure"

-----------------------------------------------------------------------------
(* The matching of handlePurge as a specification of its own *)

InitResolve == InitResolveRun /\ PurgeIdle /\ KVIdle

SpecResolve == InitResolve /\ [][NextResolve]_vars

\* the zones of Z whose name is a suffix of host h
SuffixZones(h, Z) == { z \in Z : HasSuffix(h, z.Name) }

\* C1: every host is assigned to the zone with the longest name that is a suffix of
\* the host, and to no zone when no zone name is a suffix of it; with the zones
\* example.com and api.example.com the host api.example.com goes to api.example.com.
C1_LongestSuffixZone ==
    /\ \A j \in 1..Len(assigned) :
          assigned[j].kind = "hosts" =>
              LET h == assigned[j].item
                  M == SuffixZones(h, zonesByDomain)
              IN  IF M = {} THEN ~assigned[j].matched
                  ELSE /\ assigned[j].matched
                       /\ assigned[j].zone \in { z.Name : z \in M }
                       /\ \A z \in M : Len(z.Name) <= Len(assigned[j].zone)
                       /\ ( /\ h = "api.example.com"
                            /\ {zEx, zApi} \subseteq zonesByDomain )
                          => assigned[j].zone = "api.example.com"
    /\ \A zn \in DOMAIN purgeConfigs :
          \A k \in 1..Len(purgeConfigs[zn].Hosts) :
              LET h == purgeConfigs[zn].Hosts[k]
              IN  /\ HasSuffix(h, zn)
                  /\ \A z \in SuffixZones(h, zonesByDomain) : Len(z.Name) <= Len(zn)
    /\ \A k \in 1..Len(rWarnings) :
          rWarnings[k] \in { hostList[i] : i \in 1..Len(hostList) }
              => SuffixZones(rWarnings[k], zonesByDomain) = {}

\* C1 witness: with example.com and api.example.com among the zones, the host
\* api.example.com has been assigned, and a host matching no zone was left out.
C1_Witness ==
    /\ {zEx, zApi} \subseteq zonesByDomain
    /\ \E j \in 1..Len(assigned) :
          /\ assigned[j].kind = "hosts"
          /\ assigned[j].item = "api.example.com"
          /\ assigned[j].zone = "api.example.com"
    /\ "api.example.com" \in DOMAIN purgeConfigs
    /\ rpc = "done"

-----------------------------------------------------------------------------
(* Claims about kv delete and kv purge (SpecKV) *)

\* the number of batches the batch loop cuts n keys into
NumBatches(n) == (n + batchSize - 1) \div batchSize

\* the keys of namespace n that some delete call was sent for
DeletedKeys(n) == { k \in DOMAIN deleteCalls : k[1] = n /\ deleteCalls[k] > 0 }

\* the keys of namespace n that a dry run printed
ReportedKeys(n) ==
    UNION { { <<n, reported[j].keys[i]>> : i \in DOMAIN reported[j].keys }
            : j \in { r \in DOMAIN reported : reported[r].ns = n } }

\* the keysToDelete of namespace n for the tag filter of the run
KeysToDeleteOf(n) ==
    LET ks == CollectKeys(Store(n), deleteByTag)
    IN  { <<n, ks[i]>> : i \in DOMAIN ks }

\* C3: after the join of the batch tasks, with n keys of which exactly k delete
\* calls failed, failureCount = k and successCount = n - k, every key was the
\* subject of one delete call and was counted once, in every interleaving of the
\* tasks; with k = 0 this is successCount = n and failureCount = 0.
C3_CountsAfterJoin ==
    kpc = "summary" =>
        /\ delFailureCount = failedCalls
        /\ delSuccessCount = Len(keysToDelete) - failedCalls
        /\ \A i \in DOMAIN keysToDelete :
             /\ deleteCalls[<<namespaceIDs[ni], keysToDelete[i]>>] = 1
             /\ counted[<<namespaceIDs[ni], keysToDelete[i]>>] = 1
        /\ failedCalls = 0 =>
             (delSuccessCount = Len(keysToDelete) /\ delFailureCount = 0)

\* C3 witness: the join of two concurrent batch tasks has been passed with some
\* delete calls failed and some succeeded.
C3_Witness ==
    /\ kpc = "summary"
    /\ Len(tasks) = 2
    /\ failedCalls > 1
    /\ failedCalls < Len(keysToDelete)
    /\ Len(keysToDelete) > batchSize

\* C4: the namespace's counters are read (summary printed, totals accumulated)
\* only after every batch of the key list was dispatched and every batch task has
\* completed all its delete calls and counter updates; no task is running then,
\* and every summary printed accounts for all the keys of its namespace.
C4_NoPartialResults ==
    /\ kpc = "summary" =>
         /\ Len(tasks) = NumBatches(Len(keysToDelete))
         /\ \A t \in DOMAIN tasks :
              tasks[t].st = "done" /\ tasks[t].pos = Len(tasks[t].keys) + 1
         /\ deleteMutex = 0
         /\ wg = 0
    /\ \A i \in DOMAIN nsSummaries :
         nsSummaries[i].success + nsSummaries[i].failure
            = Cardinality(KeysToDeleteOf(nsSummaries[i].ns))

\* C4 witness: the summary of a namespace whose keys went to two batch tasks has
\* been printed and added to the totals.
C4_Witness ==
    \E i \in DOMAIN nsSummaries :
        /\ nsSummaries[i].success + nsSummaries[i].failure > batchSize
        /\ totalSuccessCount + totalFailureCount > batchSize

\* C8: kv purge in dry-run mode issues no delete call and no PurgeCache call and
\* does not list the zones, and the keys it reports for a namespace are exactly
\* the keysToDelete of that namespace, which are the keys a non-dry run with the
\* same entries and tag filter sends delete calls for.
C8_DryRunIssuesNoCalls ==
    kvCmd = "purge" =>
        /\ dryRun =>
             /\ \A k \in DOMAIN deleteCalls : deleteCalls[k] = 0
             /\ kvPurgeCalls = << >>
             /\ ~zonesListed
             /\ \A i \in DOMAIN listing :
                  listing[i].ok =>
                      ReportedKeys(listing[i].ns) = KeysToDeleteOf(listing[i].ns)
        /\ (~dryRun /\ kret # "none") =>
             /\ reported = << >>
             /\ \A i \in DOMAIN listing :
                  listing[i].ok =>
                      DeletedKeys(listing[i].ns) = KeysToDeleteOf(listing[i].ns)

\* C8 witness: a finished dry run of kv purge that reported the keys of two
\* namespaces, one of them with more keys than a batch holds.
C8_Witness ==
    /\ kvCmd = "purge"
    /\ dryRun
    /\ kret = "nil"
    /\ Len(reported) = 2
    /\ \E j \in DOMAIN reported : Len(reported[j].keys) > batchSize

-----------------------------------------------------------------------------
(* Further claims about kv delete and kv purge (SpecKV) *)

\* the entries of namespace n that the run selected for deletion
SelectedNames == { keysToDelete[i] : i \in DOMAIN keysToDelete }

\* the listing that the main goroutine has just made succeeded
JustListed ==
    /\ kpc = "loop" \/ (kpc = "dispatch" /\ tasks = << >>)
    /\ listing # << >>
    /\ listing[Len(listing)].ok

\* the index in the listing of namespace n of the entry called name
EntryIndex(n, name) == CHOOSE a \in DOMAIN Store(n) : Store(n)[a].Name = name

\* C11: an entry's key is selected for deletion, and its raw tag value collected,
\* if and only if its metadata is a map with a cache-tag field whose value is a
\* string that contains the tag filter; entries with no metadata or no cache-tag
\* field are never selected, and product-123-variant is selected for product-123.
C11_SelectedIffTagContainsFilter ==
    JustListed =>
        LET entries == Store(listing[Len(listing)].ns)
            Carries(k) ==
                /\ k.Metadata.kind = "map"
                /\ k.Metadata.tagKind = "string"
                /\ \E i \in 1..Len(k.Metadata.tag), j \in 0..Len(k.Metadata.tag) :
                     j = i + Len(deleteByTag) - 1 /\
                     SubSeq(k.Metadata.tag, i, j) = deleteByTag
        IN  /\ \A i \in DOMAIN entries :
                 (entries[i].Name \in SelectedNames) <=> Carries(entries[i])
            /\ \A i \in DOMAIN entries :
                 (entries[i].Metadata.kind = "nil" \/ entries[i].Metadata.tagKind = "absent")
                    => entries[i].Name \notin SelectedNames
            /\ \A i \in DOMAIN entries :
                 (deleteByTag = "product-123" /\ entries[i].Metadata.kind = "map"
                    /\ entries[i].Metadata.tagKind = "string"
                    /\ entries[i].Metadata.tag = "product-123-variant")
                    => entries[i].Name \in SelectedNames
            /\ \A i \in 1..(Len(keysToDelete) - 1) :
                 EntryIndex(listing[Len(listing)].ns, keysToDelete[i])
                    < EntryIndex(listing[Len(listing)].ns, keysToDelete[i + 1])
            /\ kvCmd = "purge" =>
                 /\ Len(cacheTags) = Len(keysToDelete)
                 /\ \A i \in DOMAIN keysToDelete :
                      cacheTags[i] =
                        entries[EntryIndex(listing[Len(listing)].ns,
                                           keysToDelete[i])].Metadata.tag

\* C11 witness: namespace nsA was listed with filter product-123; of its seven
\* entries the two whose cache-tag contains the filter were selected.
C11_Witness ==
    /\ JustListed
    /\ listing[Len(listing)].ns = "nsA"
    /\ kvCmd = "purge"
    /\ deleteByTag = "product-123"
    /\ keysToDelete = <<"a4", "a6">>
    /\ cacheTags = <<"product-123-variant", "product-123">>

\* C12: in kv purge the collected tags are deduplicated before the cache purge:
\* no PurgeCache request carries a tag twice, no tag is sent to a zone in two
\* requests, only collected tags are sent, and when the purge stage is over every
\* zone has received every distinct collected tag value in exactly one request,
\* however many keys or namespaces carried it.
C12_EachTagOncePerZone ==
    kvCmd = "purge" =>
        LET collected == { allCacheTags[i] : i \in DOMAIN allCacheTags }
            Carrying(z, t) ==
                { c \in DOMAIN kvPurgeCalls :
                    /\ kvPurgeCalls[c].zone = z
                    /\ \E i \in DOMAIN kvPurgeCalls[c].tags : kvPurgeCalls[c].tags[i] = t }
        IN  /\ \A c \in DOMAIN kvPurgeCalls :
                 /\ \A i, j \in DOMAIN kvPurgeCalls[c].tags :
                      kvPurgeCalls[c].tags[i] = kvPurgeCalls[c].tags[j] => i = j
                 /\ \A i \in DOMAIN kvPurgeCalls[c].tags :
                      kvPurgeCalls[c].tags[i] \in collected
            /\ \A z \in DOMAIN kvZones, t \in collected :
                 Cardinality(Carrying(kvZones[z].ID, t)) <= 1
            /\ (kret = "nil" /\ kvTagsList # << >>) =>
                 \A z \in DOMAIN kvZones, t \in collected :
                    Cardinality(Carrying(kvZones[z].ID, t)) = 1

\* C12 witness: a finished kv purge over two namespaces whose keys carried more
\* than thirty tag values, two of them distinct, sent once to each of two zones.
C12_Witness ==
    /\ kvCmd = "purge"
    /\ kret = "nil"
    /\ Len(nsSummaries) = 2
    /\ Len(allCacheTags) > kvTagBatch
    /\ Len(kvTagsList) = 2
    /\ Len(kvZones) = 2
    /\ Len(kvPurgeCalls) = 2

-----------------------------------------------------------------------------
(* Further claims about the purge command (Spec) *)

\* C13: with the everything flag, every passage of the zone loop issues exactly
\* one PurgeEverything call for its target zone and no PurgeCache call (hosts,
\* URLs and tags are not sent, even when supplied), and each zone is counted a
\* success or a failure by its own call alone.
C13_EverythingOneCallPerZone ==
    purgeEverything =>
        /\ \A i \in CallIdx :
             /\ calls[i].kind = "everything"
             /\ calls[i].items = << >>
             /\ calls[i].at = i
             /\ calls[i].zone = targetZones[i].ID
        /\ Len(zoneResult) = Len(calls)
        /\ \A k \in DOMAIN zoneResult :
             zoneResult[k] = IF calls[k].ok THEN "success" ELSE "failure"
        /\ successCount = Cardinality({ i \in CallIdx : calls[i].ok })
        /\ failureCount = Cardinality({ i \in CallIdx : ~calls[i].ok })
        /\ pc = "done" /\ ret = "nil" => Len(calls) = Len(targetZones)

\* C13 witness: an everything run over three zones, given hosts and tags as well,
\* has ended with a failed zone between two successful ones.
C13_Witness ==
    /\ purgeEverything
    /\ purgeHosts # ""
    /\ purgeTags # ""
    /\ pc = "done"
    /\ Len(targetZones) = 3
    /\ zoneResult = <<"success", "failure", "success">>

\* C14: in the selective branch a target zone with no assigned host, no assigned
\* URL and no tags receives no API call and changes neither successCount nor
\* failureCount: the counters are the numbers of the other zones' results.  The
\* zones are looked at between two passages of the loop and at the end of the run.
C14_EmptyPayloadNoCallNoCount ==
    ~purgeEverything =>
        /\ pc \in {"zone", "done"} => \A k \in DOMAIN zoneResult :
             LET zone == targetZones[k]
                 HostOK(h) == HostMatchesZone(h, zone)
                 URLOK(u) == URLMatchesZone(u, zone)
                 empty == /\ SelectSeq(SplitCommaList(purgeHosts), HostOK) = << >>
                          /\ SelectSeq(SplitCommaList(purgeURLs), URLOK) = << >>
                          /\ purgeTags = ""
             IN  /\ empty => /\ zoneResult[k] = "skipped"
                             /\ \A i \in CallIdx : calls[i].at # k
                 /\ zoneResult[k] = "skipped" => empty
        /\ successCount = Cardinality({ k \in DOMAIN zoneResult : zoneResult[k] = "success" })
        /\ failureCount = Cardinality({ k \in DOMAIN zoneResult : zoneResult[k] = "failure" })

\* C14 witness: a finished run over three zones of which the second had nothing
\* assigned and was skipped, while the other two were purged.
C14_Witness ==
    /\ ~purgeEverything
    /\ pc = "done"
    /\ Len(zoneResult) = 3
    /\ zoneResult[2] = "skipped"
    /\ zoneResult[1] # "skipped"
    /\ zoneResult[3] # "skipped"
    /\ successCount + failureCount = 2

\* C15: explicit zone arguments are resolved by exact match against a zone name
\* or a zone id, in argument order; an argument that matches neither gives a
\* 'zone not found' warning, is skipped and is never fatal: a run that has warned
\* does not end with an error, the other arguments are resolved and every
\* resolved zone gets its loop passage.
C15_UnknownArgumentSkipped ==
    (~purgeAll /\ Len(zoneArgs) > 0) =>
        LET Known(a) == \E z \in DOMAIN zones : zones[z].Name = a \/ zones[z].ID = a
            known == SelectSeq(zoneArgs, Known)
            Unknown(a) == ~Known(a)
            unknown == SelectSeq(zoneArgs, Unknown)
            resolved == pc \notin {"validate", "listZones"} /\ ret # "err"
        IN  /\ resolved =>
                 /\ Len(targetZones) = Len(known)
                 /\ \A i \in DOMAIN targetZones :
                      /\ targetZones[i].Name = known[i] \/ targetZones[i].ID = known[i]
                      /\ \E z \in DOMAIN zones : zones[z] = targetZones[i]
                 /\ Len(warnings) = Len(unknown)
                 /\ \A i \in DOMAIN warnings :
                      warnings[i] = [kind |-> "zone not found", what |-> unknown[i]]
            /\ warnings # << >> => resolved
            /\ (pc = "done" /\ resolved) =>
                 /\ ret = "nil"
                 /\ Len(zoneResult) = Len(targetZones)
                 /\ \A k \in DOMAIN zoneResult :
                      zoneResult[k] # "skipped" =>
                          \E i \in CallIdx : /\ calls[i].at = k
                                             /\ calls[i].zone = targetZones[k].ID

\* C15 witness: the first argument is unknown, the second is the id of a zone;
\* the run warned once and went on to purge that zone.
C15_Witness ==
    /\ ~purgeAll
    /\ zoneArgs = <<"nope.org", "id-oth">>
    /\ pc = "done"
    /\ ret = "nil"
    /\ targetZones = <<zOth>>
    /\ Len(warnings) = 1
    /\ \E i \in CallIdx : calls[i].zone = "id-oth" /\ calls[i].ok

\* C16: a supplied host or URL that matches no zone produces a warning and is in
\* no zone's purge request.
C16_UnmatchedItemWarned ==
    (pc = "done" /\ ret = "nil" /\ ~purgeEverything) =>
        LET hostsList == SplitCommaList(purgeHosts)
            urlsList == SplitCommaList(purgeURLs)
            Sent(x) == \E i \in CallIdx :
                          /\ calls[i].kind \in {"hosts", "files"}
                          /\ \E j \in DOMAIN calls[i].items : calls[i].items[j] = x
            Warned(x) == \E w \in DOMAIN warnings : warnings[w].what = x
        IN  /\ \A h \in DOMAIN hostsList :
                 (\A z \in DOMAIN zones : ~HostMatchesZone(hostsList[h], zones[z]))
                    => (Warned(hostsList[h]) /\ ~Sent(hostsList[h]))
            /\ \A u \in DOMAIN urlsList :
                 (\A z \in DOMAIN zones : ~URLMatchesZone(urlsList[u], zones[z]))
                    => (Warned(urlsList[u]) /\ ~Sent(urlsList[u]))

\* the tags carried by the tag requests of the k-th passage of the zone loop
TagsSentAt(k) == UNION { Items(calls[i]) : i \in TagCallsAt(k) }

-----------------------------------------------------------------------------
(* Further claims about kv delete and kv purge (SpecKV), continued *)

\* C18: a configuration error of kv delete or kv purge (missing credentials,
\* missing account id, neither namespace nor all-namespaces, missing tag and key,
\* namespace together with all-namespaces) makes the command fail with an error
\* before any call to the API is made.
C18_ConfigErrorBeforeNetwork ==
    ( \/ ~kvAuthOK
      \/ ~kvAccountOK
      \/ namespace = "" /\ ~allNamespaces
      \/ deleteByTag = "" /\ (kvCmd = "purge" \/ key = "")
      \/ namespace # "" /\ allNamespaces )
    => /\ listing = << >>
       /\ \A k \in DOMAIN deleteCalls : deleteCalls[k] = 0
       /\ kvPurgeCalls = << >>
       /\ ~zonesListed
       /\ kpc = "done" => kret = "err"

\* C19: in a non-dry kv purge the zones are listed and PurgeCache is called only
\* when every namespace has been processed and the deletions of each have
\* completed (every batch task finished and joined, every selected key deleted
\* and counted once); the purge stage then sends the deduplicated tags to every
\* zone that ListZones returned, also after a failed PurgeCache call.
C19_PurgeAfterAllDeletions ==
    kvCmd = "purge" =>
        /\ (zonesListed \/ kvPurgeCalls # << >> \/ kpc = "purgeCalls") =>
             /\ ~dryRun
             /\ Len(listing) = Len(namespaceIDs)
             /\ \A i \in DOMAIN listing : listing[i].ns = namespaceIDs[i]
             /\ \A t \in DOMAIN tasks : tasks[t].st = "done"
             /\ wg = 0
             /\ deleteMutex = 0
             /\ \A i \in DOMAIN listing :
                  listing[i].ok =>
                     \A k \in KeysToDeleteOf(listing[i].ns) :
                        deleteCalls[k] = 1 /\ counted[k] = 1
        /\ (kret = "nil" /\ kvTagsList # << >>) =>
             /\ Len(kvPurgeCalls) = Len(kvZones)
             /\ \A z \in DOMAIN kvZones :
                  /\ kvPurgeCalls[z].zone = kvZones[z].ID
                  /\ { kvPurgeCalls[z].tags[i] : i \in DOMAIN kvPurgeCalls[z].tags }
                        = StringSliceToSet(allCacheTags)
                  /\ Len(kvPurgeCalls[z].tags) = Cardinality(StringSliceToSet(allCacheTags))

\* C19 witness: a finished kv purge over two namespaces with a failed delete call;
\* after the deletions both zones were sent the tags, the first call failing.
C19_Witness ==
    /\ kvCmd = "purge"
    /\ kret = "nil"
    /\ Len(nsSummaries) = 2
    /\ totalFailureCount > 0
    /\ totalSuccessCount > 0
    /\ Len(kvZones) = 2
    /\ Len(kvPurgeCalls) = 2
    /\ ~kvPurgeCalls[1].ok
    /\ kvPurgeCalls[2].ok

-----------------------------------------------------------------------------
(* Further claims about the purge command (Spec), continued *)

\* C20: with tags t1,t2, the all flag and three zones, exactly three purge calls
\* are issued, one per zone in the order of the zones, each carrying the tags
\* <<t1, t2>>; the summary counts the successful and the failed calls, so with the
\* second call failed and the others successful it is 2 successes and 1 failure.
C20_TagsToThreeZones ==
    ( /\ purgeAll /\ ~purgeEverything
      /\ purgeTags = "t1,t2" /\ purgeHosts = "" /\ purgeURLs = ""
      /\ Len(zones) = 3
      /\ pc = "done" /\ ret = "nil" )
    => /\ Len(calls) = 3
       /\ \A i \in CallIdx :
            /\ calls[i].zone = zones[i].ID
            /\ calls[i].kind = "tags"
            /\ calls[i].items = <<"t1", "t2">>
       /\ summary = << [success |-> Cardinality({ i \in CallIdx : calls[i].ok }),
                        failure |-> Cardinality({ i \in CallIdx : ~calls[i].ok })] >>
       /\ (calls[1].ok /\ ~calls[2].ok /\ calls[3].ok)
             => summary = << [success |-> 2, failure |-> 1] >>

\* C20 witness: that run has ended with the second zone's call failed and the two
\* others successful.
C20_Witness ==
    /\ purgeAll /\ ~purgeEverything
    /\ purgeTags = "t1,t2" /\ purgeHosts = "" /\ purgeURLs = ""
    /\ Len(zones) = 3
    /\ pc = "done"
    /\ Len(calls) = 3
    /\ calls[1].ok /\ ~calls[2].ok /\ calls[3].ok
    /\ summary = << [success |-> 2, failure |-> 1] >>

\* C21: with the zones example.com and other.com, the hosts
\* api.example.com,cdn.other.com and neither zone arguments nor the all flag, both
\* zones are targets, each zone gets exactly one call, carrying the one host that
\* belongs to it, and after two successful calls the summary is 2 successes and
\* 0 failures.
C21_HostsToTwoZones ==
    ( /\ zones = <<zEx, zOth>>
      /\ purgeHosts = "api.example.com,cdn.other.com"
      /\ purgeURLs = "" /\ purgeTags = ""
      /\ zoneArgs = <<>> /\ ~purgeAll /\ ~purgeEverything
      /\ pc = "done" /\ ret = "nil" )
    => /\ targetZones = <<zEx, zOth>>
       /\ Len(calls) = 2
       /\ calls[1] = [zone |-> "id-ex", at |-> 1, kind |-> "hosts",
                      items |-> <<"api.example.com">>, ok |-> calls[1].ok]
       /\ calls[2] = [zone |-> "id-oth", at |-> 2, kind |-> "hosts",
                      items |-> <<"cdn.other.com">>, ok |-> calls[2].ok]
       /\ (calls[1].ok /\ calls[2].ok)
             => summary = << [success |-> 2, failure |-> 0] >>

\* C21 witness: that run has ended after two successful calls.
C21_Witness ==
    /\ zones = <<zEx, zOth>>
    /\ purgeHosts = "api.example.com,cdn.other.com"
    /\ purgeURLs = "" /\ purgeTags = ""
    /\ zoneArgs = <<>> /\ ~purgeAll /\ ~purgeEverything
    /\ pc = "done"
    /\ Len(calls) = 2 /\ calls[1].ok /\ calls[2].ok
    /\ summary = << [success |-> 2, failure |-> 0] >>

\* C22: a run given only a non-empty tag list (no zone arguments, no all flag, no
\* hosts, no URLs) passes validation and, when the account has at least one zone
\* and the zones could be listed, issues at least one tag purge call.
C22_TagsAlonePurged ==
    ( /\ purgeTags # ""
      /\ zoneArgs = <<>> /\ ~purgeAll /\ purgeHosts = "" /\ purgeURLs = ""
      /\ ~purgeEverything
      /\ authOK /\ Len(zones) >= 1
      /\ pc = "done" /\ ret = "nil" )
    => \E i \in CallIdx : calls[i].kind = "tags"

\* C23: a failed zone never ends the run.  When the summary is produced every
\* target zone has been processed, in order: it has a result, it was skipped
\* exactly when no call was made for it, and otherwise its calls went to that
\* zone.  A run that returns an error has made no call.
C23_EveryTargetZoneProcessed ==
    /\ summary # <<>> =>
          /\ ret = "nil"
          /\ Len(zoneResult) = Len(targetZones)
          /\ \A i \in 1..Len(targetZones) :
                LET mine == { k \in CallIdx : calls[k].at = i }
                IN  /\ (zoneResult[i] = "skipped") <=> (mine = {})
                    /\ \A k \in mine : calls[k].zone = targetZones[i].ID
          /\ \A k \in CallIdx : calls[k].at \in 1..Len(targetZones)
    /\ ret = "err" => calls = <<>> /\ zoneResult = <<>>

\* C23 witness: the summary was produced after a zone failed and a later zone
\* received a call.
C23_Witness ==
    /\ summary # <<>>
    /\ Len(targetZones) >= 2
    /\ zoneResult[1] = "failure"
    /\ \E k \in CallIdx : calls[k].at = Len(targetZones)

\* C24: every tag request of the purge command carries at least one and at most
\* 30 tags; for a zone none of whose calls failed, the tag requests, taken in the
\* order sent, are ceil(len(tags)/30) in number and their tags concatenated are
\* the tag list: the j-th tag of the list is in request (j-1) div 30 + 1 at place
\* (j-1) mod 30 + 1, and no request carries anything else.
C24_ChunksPartitionTagList ==
    pc = "done" =>
        /\ \A i \in CallIdx :
              calls[i].kind = "tags" => Len(calls[i].items) \in 1..TagChunk
        /\ \A k \in DOMAIN zoneResult :
              ( /\ ~purgeEverything /\ purgeTags # ""
                /\ \A i \in CallIdx : calls[i].at = k => calls[i].ok )
              => LET tags == SplitCommaList(purgeTags)
                     n == Len(tags)
                     Nth(m) == CHOOSE i \in TagCallsAt(k) :
                                  Cardinality({ j \in TagCallsAt(k) : j < i }) = m - 1
                 IN  /\ Cardinality(TagCallsAt(k)) = NumChunks(n)
                     /\ \A j \in 1..n :
                           calls[Nth(((j - 1) \div TagChunk) + 1)]
                               .items[((j - 1) % TagChunk) + 1] = tags[j]
                     /\ \A m \in 1..NumChunks(n) :
                           Len(calls[Nth(m)].items) =
                               IF m * TagChunk <= n THEN TagChunk
                               ELSE n - (m - 1) * TagChunk

\* C24 witness: a zone was sent a list of more than 30 tags in two successful
\* requests, the first of 30 tags.
C24_Witness ==
    /\ pc = "done"
    /\ Len(tagsList) > TagChunk
    /\ Cardinality(TagCallsAt(1)) = 2
    /\ \A i \in TagCallsAt(1) : calls[i].ok
    /\ \E i \in TagCallsAt(1) : Len(calls[i].items) = TagChunk
    /\ zoneResult[1] = "success"

-----------------------------------------------------------------------------
(* Claims about the batch tasks of kv delete and kv purge (SpecKV) *)

\* C25: no key is the subject of more than one delete call in a run, whatever the
\* calls return.  The batch of the t-th task is the t-th run of at most 30
\* consecutive keys of keysToDelete; a task has sent exactly one call for each key
\* before its position, none for the keys after it, and goes on to its next key
\* after a failed call as after a successful one; once every task is done the
\* batches are the whole key list and every key had its one call.
C25_EachKeyDeletedOnce ==
    /\ \A k \in DOMAIN deleteCalls : deleteCalls[k] <= 1
    /\ kpc \in {"dispatch", "wait", "summary"} =>
         LET n == Len(keysToDelete)
             nsID == namespaceIDs[ni]
         IN  /\ \A t \in DOMAIN tasks :
                   /\ Len(tasks[t].keys) \in 1..batchSize
                   /\ tasks[t].keys =
                        SubSeq(keysToDelete, (t - 1) * batchSize + 1,
                               IF t * batchSize > n THEN n ELSE t * batchSize)
                   /\ \A p \in DOMAIN tasks[t].keys :
                        deleteCalls[<<nsID, tasks[t].keys[p]>>] =
                            IF p < tasks[t].pos
                               \/ (p = tasks[t].pos /\ tasks[t].st # "ready")
                            THEN 1 ELSE 0
             /\ (kpc # "dispatch" /\ wg = 0) =>
                   /\ Len(tasks) = NumBatches(n)
                   /\ \A i \in 1..n : deleteCalls[<<nsID, keysToDelete[i]>>] = 1

\* C25 witness: the two batch tasks of a list of more than 30 keys are done, a
\* call of the first batch had failed before the first batch sent its last call,
\* and every key had its call.
C25_Witness ==
    /\ kpc = "wait" /\ wg = 0
    /\ Len(keysToDelete) > batchSize
    /\ Len(tasks) = 2
    /\ failedCalls >= 1
    /\ \A i \in DOMAIN keysToDelete :
          deleteCalls[<<namespaceIDs[ni], keysToDelete[i]>>] = 1

\* the tasks that have a delete call in flight
InFlight == { t \in DOMAIN tasks : tasks[t].st = "inflight" }

\* C26: one task is started per batch, so there are never more tasks than
\* ceil(len(keysToDelete)/30) and, after the batch loop, exactly that many; a task
\* sends the calls of its batch one after the other in list order, the call in
\* flight being the one of the key at its position; hence the number of delete
\* calls in flight never exceeds ceil(len(keysToDelete)/30).
C26_InFlightBoundedByBatches ==
    /\ Cardinality(InFlight) <= NumBatches(Len(keysToDelete))
    /\ kpc \in {"dispatch", "wait", "summary"} =>
         /\ Len(tasks) <= NumBatches(Len(keysToDelete))
         /\ kpc = "dispatch" => Len(tasks) * batchSize = bi
         /\ kpc # "dispatch" => Len(tasks) = NumBatches(Len(keysToDelete))
         /\ \A t \in DOMAIN tasks :
              LET sent == { p \in DOMAIN tasks[t].keys :
                              deleteCalls[<<tasks[t].nsID, tasks[t].keys[p]>>] > 0 }
              IN  /\ \A p \in sent : \A q \in 1..(p - 1) : q \in sent
                  /\ t \in InFlight =>
                        (tasks[t].pos \in sent /\ tasks[t].pos + 1 \notin sent)

\* C26 witness: a list of more than 30 keys has two batches, and both tasks have
\* a delete call in flight at the same time.
C26_Witness ==
    /\ Len(keysToDelete) > batchSize
    /\ NumBatches(Len(keysToDelete)) = 2
    /\ Cardinality(InFlight) = 2

\* C27: the task that holds the delete mutex is between its Lock and its Unlock
\* and has no delete call in flight, and no other task is there; the counters are
\* written only there: their sum is the number of keys whose task has made its
\* update under the lock, an update counted for a key exactly when its task is
\* past that key or has made the update and not yet unlocked.
C27_LockNotHeldAcrossCall ==
    kpc \in {"dispatch", "wait", "summary"} =>
        LET holders == { t \in DOMAIN tasks : tasks[t].st \in {"locked", "counted"} }
            updated == { tp \in (DOMAIN tasks) \X (1..batchSize) :
                           /\ tp[2] <= Len(tasks[tp[1]].keys)
                           /\ \/ tp[2] < tasks[tp[1]].pos
                              \/ tp[2] = tasks[tp[1]].pos /\ tasks[tp[1]].st = "counted" }
        IN  /\ Cardinality(holders) <= 1
            /\ holders = (IF deleteMutex = 0 THEN {} ELSE {deleteMutex})
            /\ holders \cap InFlight = {}
            /\ delSuccessCount + delFailureCount = Cardinality(updated)
            /\ \A tp \in (DOMAIN tasks) \X (1..batchSize) :
                  tp[2] <= Len(tasks[tp[1]].keys) =>
                     counted[<<tasks[tp[1]].nsID, tasks[tp[1]].keys[tp[2]]>>] =
                        IF tp \in updated THEN 1 ELSE 0

\* C27 witness: one task holds the mutex and has made its update while the other
\* task has a delete call in flight.
C27_Witness ==
    /\ kpc \in {"dispatch", "wait"}
    /\ deleteMutex # 0
    /\ tasks[deleteMutex].st = "counted"
    /\ \E t \in InFlight : t # deleteMutex

\* C28: under SpecKVFair the batch deletion of a namespace terminates.  From the
\* start of the batch loop the run reaches the namespace summary, with every task
\* done, the wait group at zero and the mutex free; and at every moment a task
\* that waits for the mutex waits for a task that is between Lock and Unlock,
\* which is never itself waiting for anything.
C28_BatchDeletionTerminates ==
    /\ [](\A t \in DOMAIN tasks :
             (tasks[t].st = "returned" /\ ~LockFree(deleteMutex)) =>
                 /\ deleteMutex \in DOMAIN tasks
                 /\ deleteMutex # t
                 /\ tasks[deleteMutex].st \in {"locked", "counted"})
    /\ (kpc = "dispatch") ~>
          ( /\ kpc = "summary"
            /\ wg = 0
            /\ deleteMutex = 0
            /\ \A t \in DOMAIN tasks : tasks[t].st = "done" )

\* C28 witness: the join was released for a namespace whose keys went to two
\* batch tasks, both done, some of their calls having failed.
C28_Witness ==
    /\ kpc = "summary"
    /\ Len(tasks) = 2
    /\ \A t \in DOMAIN tasks : tasks[t].st = "done"
    /\ wg = 0 /\ deleteMutex = 0
    /\ failedCalls >= 1

\* C29: in a run by tag, a namespace whose keys could not be listed gets no delete
\* call and adds one to the total failure count, and the namespaces after it are
\* still listed, in order, and their matching keys deleted; so in the overall
\* summary successes + failures = delete calls made + failed listings, and the
\* failures are the failed delete calls of the namespace summaries plus the failed
\* listings.
C29_ListingFailureCountedOnce ==
    LET failedListings == { i \in DOMAIN listing : ~listing[i].ok }
        callsMade == { kc \in (DOMAIN deleteCalls) \X (1..2) : kc[2] <= deleteCalls[kc[1]] }
        sumFailures == { jc \in (DOMAIN nsSummaries) \X (1..MaxKeys) :
                            jc[2] <= nsSummaries[jc[1]].failure }
    IN  /\ \A i \in failedListings : DeletedKeys(listing[i].ns) = {}
        /\ kvSummary # << >> =>
             /\ Len(listing) = Len(namespaceIDs)
             /\ \A i \in DOMAIN listing : listing[i].ns = namespaceIDs[i]
             /\ \A i \in DOMAIN listing :
                  (listing[i].ok /\ ~dryRun) =>
                      DeletedKeys(listing[i].ns) = KeysToDeleteOf(listing[i].ns)
             /\ kvSummary[1].success + kvSummary[1].failure
                   = Cardinality(callsMade) + Cardinality(failedListings)
             /\ kvSummary[1].failure
                   = Cardinality(sumFailures) + Cardinality(failedListings)

\* C29 witness: the listing of the first namespace failed, the second namespace
\* was listed and its keys deleted, and the overall summary has been printed.
C29_Witness ==
    /\ kvSummary # << >>
    /\ Len(listing) = 2
    /\ ~listing[1].ok /\ listing[2].ok
    /\ DeletedKeys(listing[2].ns) # {}
    /\ kvSummary[1].success + kvSummary[1].failure
          = Cardinality(DeletedKeys(listing[2].ns)) + 1

\* C30: in a kv purge that is not a dry run, allCacheTags has one entry per key
\* counted in a printed namespace summary, success or failure, and so nothing of
\* a namespace whose deletions are still under way.  Between two namespaces and
\* after the loop these entries are the raw cache-tags of the matched keys of the
\* summarised namespaces, each of which has had the delete call and the count of
\* every one of its keys.  When the purge stage has run, every zone was sent
\* every one of those tags, also the tags of a namespace none of whose keys could
\* be deleted.
C30_TagsForwardedDespiteFailures ==
    (kvCmd = "purge" /\ ~dryRun) =>
        LET TagsOf(n) == CollectTags(Store(n), deleteByTag)
            entries == { je \in (DOMAIN nsSummaries) \X (1..MaxKeys) :
                            je[2] <= nsSummaries[je[1]].success
                                        + nsSummaries[je[1]].failure }
        IN  /\ Len(allCacheTags) = Cardinality(entries)
            /\ kpc \in {"loop", "purgeCalls", "done"} =>
                  /\ StringSliceToSet(allCacheTags)
                        = UNION { StringSliceToSet(TagsOf(nsSummaries[j].ns)) :
                                     j \in DOMAIN nsSummaries }
                  /\ \A j \in DOMAIN nsSummaries :
                        /\ nsSummaries[j].success + nsSummaries[j].failure
                              = Len(TagsOf(nsSummaries[j].ns))
                        /\ \A k \in KeysToDeleteOf(nsSummaries[j].ns) :
                              deleteCalls[k] = 1 /\ counted[k] = 1
            /\ (kvSummary # << >> /\ kvTagsList # << >>) =>
                  \A z \in DOMAIN kvZones, j \in DOMAIN nsSummaries :
                     \A t \in StringSliceToSet(TagsOf(nsSummaries[j].ns)) :
                        \E c \in DOMAIN kvPurgeCalls :
                           /\ kvPurgeCalls[c].zone = kvZones[z].ID
                           /\ t \in StringSliceToSet(kvPurgeCalls[c].tags)

\* C30 witness: a finished kv purge in which every delete call failed and the
\* tag of the keys was nevertheless sent to both zones.
C30_Witness ==
    /\ kvCmd = "purge" /\ ~dryRun
    /\ kvSummary # << >>
    /\ nsSummaries # << >>
    /\ \A j \in DOMAIN nsSummaries : nsSummaries[j].success = 0
    /\ totalSuccessCount = 0
    /\ Len(kvZones) = 2
    /\ Len(kvPurgeCalls) = 2
    /\ \A c \in DOMAIN kvPurgeCalls : kvPurgeCalls[c].tags = <<"product-123">>

====
